---- MODULE Spec2Model ----
(***************************************************************************)
(* Model of documentextractor_client.client.DocumentExtractorAPIClient:    *)
(* the request dispatcher (_request), its classification of HTTP and       *)
(* transport failures, and the public operations built on it.              *)
(*                                                                         *)
(* A public operation is a blocking call.  It is modelled in two steps:    *)
(* the operation's action (list_files, upload_file, ...) runs the code up  *)
(* to the point where requests.request() has put the request on the wire,  *)
(* and Respond runs everything that follows the arrival of the response    *)
(* (or of the transport failure): the rest of _request and the rest of the *)
(* operation that called it.  The response is the environment's input.     *)
(* Done hands the result to the caller and frees the thread.               *)
(*                                                                         *)
(* Library semantics assumed (requests >= 2.27, pydantic):                 *)
(*  - Response.raise_for_status() raises HTTPError iff 400 <= status < 600 *)
(*  - Response.json() raises requests.exceptions.JSONDecodeError, which is *)
(*    both a requests.exceptions.RequestException and a                    *)
(*    json.JSONDecodeError (hence a ValueError)                            *)
(*  - a response with status 1xx, 204 or 304 has an empty body             *)
(*  - pydantic's ValidationError is a ValueError                           *)
(***************************************************************************)
EXTENDS Integers, Sequences, FiniteSets, TLC

VARIABLES
    root_url,   \* self.root_url
    api_key,    \* self.api_key
    headers,    \* self.headers
    threads,    \* the callers that use the client
    pc,         \* per thread: "idle", "inflight" (request sent), "done"
    call,       \* per thread: the public operation in progress and its arguments
    request,    \* per thread: the request handed to requests.request()
    netCalls,   \* per thread: calls of requests.request() made by the current call
    opens,      \* per thread: calls of open() made by the current call
    resp,       \* per thread: what came back from the network
    accepted,   \* per thread: whether the response model accepts the decoded fields
    dispatch,   \* per thread: how _request ended (value returned or error raised)
    outcome     \* per thread: how the public operation ended

vars == <<root_url, api_key, headers, threads, pc, call, request, netCalls, opens,
          resp, accepted, dispatch, outcome>>

client == <<root_url, api_key, headers>>

(***************************************************************************)
(* Bounds of the model and constants of the program.                       *)
(***************************************************************************)
\* longest response text the network produces, in characters
MaxBodyLen == 101

\* len(error_details) < 100
ShortTextLimit == 100

Threads == {1, 2}

\* A text of n characters.
Chars(n) == [i \in 1..n |-> "x"]

TextLens == {0, 2, ShortTextLimit - 1, ShortTextLimit, MaxBodyLen}

(***************************************************************************)
(* Python / JSON values.  Every value is a record [t, v]; t fixes v's type. *)
(***************************************************************************)
None        == [t |-> "None", v |-> 0]
PyBool(b)   == [t |-> "bool", v |-> b]
PyInt(n)    == [t |-> "int", v |-> n]
PyStr(s)    == [t |-> "str", v |-> s]
PyBytes(s)  == [t |-> "bytes", v |-> s]
PyDict(d)   == [t |-> "dict", v |-> d]
PyList(l)   == [t |-> "list", v |-> l]
\* an instance of a pydantic model of documentextractor_commons
Model(cls, fields) == [t |-> "model", v |-> [cls |-> cls, fields |-> fields]]
\* a requests.Response handle
Handle(r)   == [t |-> "Response", v |-> r]
\* the result of decoding a text that is not JSON
NotJSON     == [t |-> "invalid", v |-> 0]

\* Python truthiness (bool(x)).
Truthy(x) ==
    CASE x.t = "None" -> FALSE
      [] x.t = "bool" -> x.v
      [] x.t = "int"  -> x.v # 0
      [] x.t = "str"  -> Len(x.v) > 0
      [] x.t = "dict" -> DOMAIN x.v # {}
      [] x.t = "list" -> Len(x.v) > 0
      [] OTHER        -> TRUE

\* str(x) as an f-string renders it, as a sequence of character tokens.
Format(x) ==
    CASE x.t = "str"  -> x.v
      [] x.t = "int"  -> <<ToString(x.v)>>
      [] x.t = "bool" -> IF x.v THEN <<"True">> ELSE <<"False">>
      [] x.t = "None" -> <<"None">>
      [] OTHER        -> <<"<", x.t, ">">>

(***************************************************************************)
(* Responses.  A body is [text, doc]: the text on the wire and the value a *)
(* JSON decoder gives for that text (NotJSON when it is not JSON).         *)
(***************************************************************************)
TextBody(n)  == [text |-> Chars(n), doc |-> NotJSON]
JsonBody(d)  == [text |-> <<"json:">> \o Format(d), doc |-> d]
JsonObj(k, d) == [text |-> <<"{", k, ":">> \o Format(d) \o <<"}">>, doc |-> PyDict([x \in {k} |-> d])]

EmptyBody == TextBody(0)

TextBodies == {TextBody(n) : n \in TextLens}

DetailValues == {PyStr(Chars(2)), PyStr(Chars(0)), None, PyBool(FALSE), PyInt(7)}

JsonBodies ==
    {JsonObj("detail", d) : d \in DetailValues}
    \cup {JsonObj("id", PyStr(Chars(1)))}
    \cup {[text |-> <<"{", "}">>, doc |-> PyDict([x \in {} |-> None])]}
    \cup {[text |-> <<"[", "]">>, doc |-> PyList(<<>>)]}
    \cup {[text |-> <<"[", "{id}", "]">>, doc |-> PyList(<<PyDict([id |-> PyStr(Chars(1))])>>)]}
    \cup {[text |-> <<"[", "3", "]">>, doc |-> PyList(<<PyInt(3)>>)]}
    \cup {JsonBody(PyStr(Chars(2))), JsonBody(PyStr(Chars(ShortTextLimit)))}
    \cup {JsonBody(None)}

Bodies == TextBodies \cup JsonBodies

\* the status codes a response can carry (http.client consumes 100 Continue itself)
StatusCodes == 101..599

\* http.client gives a 1xx, 204 or 304 response an empty body.
BodiesFor(status) ==
    IF status < 200 \/ status = 204 \/ status = 304 THEN {EmptyBody} ELSE Bodies

HTTPResponse(status, body) == [kind |-> "http", status_code |-> status, body |-> body]
\* requests.request() raised a RequestException: no response at all.
TransportFailure == [kind |-> "transport", status_code |-> 0, body |-> EmptyBody]

Responses ==
    UNION {{HTTPResponse(s, b) : b \in BodiesFor(s)} : s \in StatusCodes}
    \cup {TransportFailure}

NoResponse == [kind |-> "none", status_code |-> 0, body |-> EmptyBody]

\* Response.json() and Response.text
json(r) == r.body.doc
text(r) == r.body.text

(***************************************************************************)
(* Exceptions.  How a call ends: a value returned or an exception raised   *)
(* with the arguments its constructor was given (NotPassed: left to the    *)
(* constructor's default).                                                 *)
(***************************************************************************)
NotPassed == [t |-> "default", v |-> 0]

Return(v) ==
    [kind |-> "return", value |-> v, exc |-> "none",
     message |-> NotPassed, status_code |-> NotPassed, details |-> NotPassed]

Raise(exc, message, status_code, details) ==
    [kind |-> "raise", value |-> None, exc |-> exc,
     message |-> message, status_code |-> status_code, details |-> details]

Pending == [kind |-> "pending", value |-> None, exc |-> "none",
            message |-> NotPassed, status_code |-> NotPassed, details |-> NotPassed]

\* DocumentExtractorAPIError and its subclasses (documentextractor_client.exceptions).
APIErrors ==
    {"DocumentExtractorAPIError", "AuthenticationError", "ForbiddenError",
     "ClientRequestError", "APIServerError"}

IsAPIError(exc) == exc \in APIErrors

\* Python's ValueError and the subclasses of it that the client can meet.
IsValueError(exc) == exc \in {"ValueError", "JSONDecodeError", "ValidationError"}

(***************************************************************************)
(* The dispatcher: DocumentExtractorAPIClient._request                     *)
(***************************************************************************)
\* request_headers = self.headers.copy(); request_headers.update(kwargs.pop('headers'))
Update(base, over) ==
    [k \in (DOMAIN base) \cup (DOMAIN over) |->
        IF k \in DOMAIN over THEN over[k] ELSE base[k]]

\* RequestHeaders written as request_headers = kwargs.pop('headers', {})
RequestHeaders_OverridesOnly(base, kwargs) ==
    IF "headers" \in DOMAIN kwargs THEN kwargs.headers ELSE [k \in {} |-> <<>>]

RequestHeaders(base, kwargs) ==
    IF "headers" \in DOMAIN kwargs THEN Update(base, kwargs.headers) ELSE base

\* Response.raise_for_status(): an HTTPError for 4xx and 5xx only.
raise_for_status(r) == 400 <= r.status_code /\ r.status_code < 600

\* error_details: e.response.json(), or e.response.text when that is not JSON
error_details(r) == IF json(r).t = "invalid" THEN PyStr(text(r)) ELSE json(r)

\* ClientErrorMessage with the length test written as len(error_details) <= 100
ClientErrorMessage_LimitInclusive(status_code, details) ==
    LET generic == <<"Client error ", ToString(status_code)>>
    IN  IF Truthy(details) /\ details.t = "dict"
           /\ "detail" \in DOMAIN details.v /\ Truthy(details.v["detail"])
        THEN generic \o <<": ">> \o Format(details.v["detail"])
        ELSE IF details.t = "str" /\ Len(details.v) <= ShortTextLimit
        THEN generic \o <<": ">> \o details.v
        ELSE generic

\* msg of a ClientRequestError
ClientErrorMessage(status_code, details) ==
    LET generic == <<"Client error ", ToString(status_code)>>
    IN  IF Truthy(details) /\ details.t = "dict"
           /\ "detail" \in DOMAIN details.v /\ Truthy(details.v["detail"])
        THEN generic \o <<": ">> \o Format(details.v["detail"])
        ELSE IF details.t = "str" /\ Len(details.v) < ShortTextLimit
        THEN generic \o <<": ">> \o details.v
        ELSE generic

\* HTTPErrorHandler with the generic 4xx branch tested before 401 and 403
HTTPErrorHandler_Generic4xxFirst(url, r) ==
    LET status_code == r.status_code
        details == error_details(r)
    IN  IF status_code # 0 /\ 400 <= status_code /\ status_code < 500
        THEN Raise("ClientRequestError",
                   PyStr(ClientErrorMessage(status_code, details)),
                   PyInt(status_code), details)
        ELSE IF status_code = 401
        THEN Raise("AuthenticationError", NotPassed, NotPassed, details)
        ELSE IF status_code = 403
        THEN Raise("ForbiddenError", NotPassed, NotPassed, details)
        ELSE Raise("APIServerError",
                   PyStr(<<"Server error ", ToString(status_code)>>),
                   PyInt(status_code), details)

\* HTTPErrorHandler that logs a server error and returns None instead of raising
HTTPErrorHandler_Swallow5xx(url, r) ==
    LET status_code == r.status_code
        details == error_details(r)
    IN  IF status_code = 401
        THEN Raise("AuthenticationError", NotPassed, NotPassed, details)
        ELSE IF status_code = 403
        THEN Raise("ForbiddenError", NotPassed, NotPassed, details)
        ELSE IF status_code # 0 /\ 400 <= status_code /\ status_code < 500
        THEN Raise("ClientRequestError",
                   PyStr(ClientErrorMessage(status_code, details)),
                   PyInt(status_code), details)
        ELSE Return(None)

\* except requests.exceptions.HTTPError as e
HTTPErrorHandler(url, r) ==
    LET status_code == r.status_code
        details == error_details(r)
    IN  IF status_code = 401
        THEN Raise("AuthenticationError", NotPassed, NotPassed, details)
        ELSE IF status_code = 403
        THEN Raise("ForbiddenError", NotPassed, NotPassed, details)
        ELSE IF status_code # 0 /\ 400 <= status_code /\ status_code < 500
        THEN Raise("ClientRequestError",
                   PyStr(ClientErrorMessage(status_code, details)),
                   PyInt(status_code), details)
        ELSE IF status_code # 0 /\ 500 <= status_code /\ status_code < 600
        THEN Raise("APIServerError",
                   PyStr(<<"Server error ", ToString(status_code)>>),
                   PyInt(status_code), details)
        ELSE Raise("DocumentExtractorAPIError",
                   PyStr(<<"HTTP Error ", ToString(status_code), " for ">> \o url),
                   PyInt(status_code), details)

\* except requests.exceptions.RequestException as e
RequestExceptionHandler(url, e) ==
    Raise("DocumentExtractorAPIError",
          PyStr(<<"Request failed for ">> \o url \o <<": ", e>>),
          NotPassed, NotPassed)

\* The body of the try block once the response r is there.
Succeed(url, parse_json, r) ==
    IF ~parse_json THEN Return(Handle(r))
    ELSE IF r.status_code = 204 THEN Return(None)
    ELSE IF json(r).t = "invalid"
    THEN RequestExceptionHandler(url, "JSONDecodeError")
    ELSE Return(json(r))

\* _request with the parse_json test placed before raise_for_status()
_request_HandleBeforeStatusCheck(url, parse_json, r) ==
    IF r.kind = "transport" THEN RequestExceptionHandler(url, "ConnectionError")
    ELSE IF ~parse_json THEN Return(Handle(r))
    ELSE IF raise_for_status(r) THEN HTTPErrorHandler(url, r)
    ELSE Succeed(url, parse_json, r)

_request(url, parse_json, r) ==
    IF r.kind = "transport" THEN RequestExceptionHandler(url, "ConnectionError")
    ELSE IF raise_for_status(r) THEN HTTPErrorHandler(url, r)
    ELSE Succeed(url, parse_json, r)

(***************************************************************************)
(* Deserialising a response into the typed shapes of the commons package.  *)
(* schema_ok: whether the pydantic model accepts the fields it is given.   *)
(***************************************************************************)
\* Cls(**data)
Construct(cls, data, schema_ok) ==
    IF data.t # "dict"
    THEN Raise("TypeError", PyStr(<<"argument after ** must be a mapping">>), NotPassed, NotPassed)
    ELSE IF schema_ok THEN Return(Model(cls, data.v))
    ELSE Raise("ValidationError", PyStr(<<"validation error for ", cls>>), NotPassed, NotPassed)

\* what `for item in data` iterates over (a dict yields its keys, a str its characters)
Items(data) ==
    CASE data.t = "list" -> data.v
      [] data.t = "dict" -> IF DOMAIN data.v = {} THEN <<>>
                            ELSE <<PyStr(<<CHOOSE k \in DOMAIN data.v : TRUE>>)>>
      [] data.t = "str"  -> [i \in 1..Len(data.v) |-> PyStr(<<data.v[i]>>)]
      [] OTHER           -> <<>>

\* [Cls(**item) for item in data]
ConstructAll(cls, data, schema_ok) ==
    IF data.t \notin {"list", "dict", "str"}
    THEN Raise("TypeError", PyStr(<<"object is not iterable">>), NotPassed, NotPassed)
    ELSE LET items == Items(data)
             made == [i \in 1..Len(items) |-> Construct(cls, items[i], schema_ok)]
             bad == {i \in 1..Len(items) : made[i].kind = "raise"}
         IN  IF bad # {}
             THEN made[CHOOSE i \in bad : \A j \in bad : i <= j]
             ELSE Return(PyList([i \in 1..Len(items) |-> made[i].value]))

(***************************************************************************)
(* RunResultResponseFormat (documentextractor_commons) and a member the    *)
(* client does not support.                                                *)
(***************************************************************************)
Formats == {"JSON", "CSV", "EXCEL", "OTHER"}

\* accept_format.value
FormatValue(f) ==
    CASE f = "JSON"  -> "application/json"
      [] f = "CSV"   -> "text/csv"
      [] f = "EXCEL" -> "application/vnd.openxmlformats-officedocument.spreadsheetml.sheet"
      [] OTHER       -> "application/x-other"

\* ResultsFinish with the decoding failure re-wrapped as the client's API error
ResultsFinish_Rewrapped(accept_format, r, schema_ok) ==
    IF accept_format = "JSON"
    THEN IF json(r).t = "invalid"
         THEN Raise("DocumentExtractorAPIError",
                    PyStr(<<"Failed to decode JSON response for RunResult.">>),
                    NotPassed, NotPassed)
         ELSE Construct("RunResult", json(r), schema_ok)
    ELSE IF accept_format = "CSV" THEN Return(PyStr(text(r)))
    ELSE IF accept_format = "EXCEL" THEN Return(PyBytes(text(r)))
    ELSE Raise("ValueError", PyStr(<<"Unsupported accept_format: ", accept_format>>),
               NotPassed, NotPassed)

\* get_workflow_run_results after _request has returned the response handle
ResultsFinish(accept_format, r, schema_ok) ==
    IF accept_format = "JSON"
    THEN IF json(r).t = "invalid"
         THEN Raise("ValueError",
                    PyStr(<<"Failed to decode JSON response for RunResult.">>),
                    NotPassed, NotPassed)
         ELSE LET made == Construct("RunResult", json(r), schema_ok)
              IN  IF made.kind = "raise" /\ made.exc = "TypeError"
                  THEN Raise("ValueError",
                             PyStr(<<"Mismatched JSON structure for RunResult: ">>
                                   \o Format(json(r))),
                             NotPassed, NotPassed)
                  ELSE made
    ELSE IF accept_format = "CSV" THEN Return(PyStr(text(r)))
    ELSE IF accept_format = "EXCEL" THEN Return(PyBytes(text(r)))
    ELSE Raise("ValueError", PyStr(<<"Unsupported accept_format: ", accept_format>>),
               NotPassed, NotPassed)

(***************************************************************************)
(* The public operations: what each does with the dispatcher's result.     *)
(***************************************************************************)
ListOps   == {"list_files", "list_workflows", "list_workflow_runs"}
DeleteOps == {"delete_file", "delete_workflow"}
ObjectOps == {"upload_file", "get_file", "create_workflow", "get_workflow",
              "override_workflow", "update_workflow", "create_workflow_run",
              "get_workflow_run_details"}
ResultOps == {"get_workflow_run_results"}
PublicOps == ListOps \cup DeleteOps \cup ObjectOps \cup ResultOps

\* the response model of an operation
ResponseModel(op) ==
    CASE op \in {"list_files", "upload_file", "get_file"} -> "FileResponse"
      [] op \in {"list_workflow_runs", "create_workflow_run",
                 "get_workflow_run_details"} -> "RunResponse"
      [] op = "get_workflow_run_results" -> "RunResult"
      [] OTHER -> "WorkflowResponse"

\* the statements of operation c.op that follow its call of _request
Finish(c, d, schema_ok) ==
    IF d.kind = "raise" THEN d
    ELSE IF c.op \in DeleteOps THEN Return(None)
    ELSE IF c.op \in ListOps THEN ConstructAll(ResponseModel(c.op), d.value, schema_ok)
    ELSE IF c.op \in ResultOps THEN ResultsFinish(c.args.accept_format, d.value.v, schema_ok)
    ELSE Construct(ResponseModel(c.op), d.value, schema_ok)

(***************************************************************************)
(* Construction: DocumentExtractorAPIClient.__init__                       *)
(***************************************************************************)
RECURSIVE rstrip(_, _)
\* s.rstrip(c), s a sequence of characters
rstrip(s, c) ==
    IF Len(s) > 0 /\ s[Len(s)] = c THEN rstrip(SubSeq(s, 1, Len(s) - 1), c) ELSE s

RootUrls == {<<"https://api.example">>, <<"https://api.example", "/">>,
             <<"https://api.example", "/", "/">>}
ApiKeys  == {"key-A", "key-B"}

BaseHeaders(key) ==
    [Authorization |-> <<"Bearer ", key>>, Accept |-> <<"application/json">>]

NoCall    == [op |-> "none", args |-> <<>>]
NoRequest == [method |-> "none", url |-> <<>>, parse_json |-> TRUE,
              headers |-> <<>>, kwargs |-> <<>>]

__init__(url, key, users) ==
    /\ root_url = rstrip(url, "/")
    /\ api_key = key
    /\ headers = BaseHeaders(key)
    /\ threads = users
    /\ pc = [t \in Threads |-> "idle"]
    /\ call = [t \in Threads |-> NoCall]
    /\ request = [t \in Threads |-> NoRequest]
    /\ netCalls = [t \in Threads |-> 0]
    /\ opens = [t \in Threads |-> 0]
    /\ resp = [t \in Threads |-> NoResponse]
    /\ accepted = [t \in Threads |-> TRUE]
    /\ dispatch = [t \in Threads |-> Pending]
    /\ outcome = [t \in Threads |-> Pending]

Init == \E url \in RootUrls, key \in ApiKeys : __init__(url, key, {1})

(***************************************************************************)
(* First step of a public operation: up to requests.request().             *)
(***************************************************************************)
\* kwargs once 'headers' has been popped
Pop(kwargs) == [k \in (DOMAIN kwargs) \ {"headers"} |-> kwargs[k]]

\* SelfHeadersAfter with the copy left out: request_headers = self.headers
SelfHeadersAfter_Aliased(base, kwargs) == RequestHeaders(base, kwargs)

\* self.headers once _request has built request_headers: the update acts on a copy
SelfHeadersAfter(base, kwargs) == base

\* _request(method, path, parse_json, **kwargs) as far as requests.request(...)
Send(t, c, method, path, parse_json, kwargs) ==
    /\ call' = [call EXCEPT ![t] = c]
    /\ request' = [request EXCEPT ![t] =
                      [method |-> method, url |-> root_url \o path,
                       parse_json |-> parse_json,
                       headers |-> RequestHeaders(headers, kwargs),
                       kwargs |-> Pop(kwargs)]]
    /\ netCalls' = [netCalls EXCEPT ![t] = @ + 1]
    /\ pc' = [pc EXCEPT ![t] = "inflight"]
    /\ headers' = SelfHeadersAfter(headers, kwargs)
    /\ UNCHANGED <<root_url, api_key, threads, resp, accepted, dispatch, outcome>>

\* the operation raises before it calls _request
Fail(t, c, error) ==
    /\ call' = [call EXCEPT ![t] = c]
    /\ outcome' = [outcome EXCEPT ![t] = error]
    /\ pc' = [pc EXCEPT ![t] = "done"]
    /\ UNCHANGED <<client, threads, request, netCalls, resp, accepted, dispatch>>

Op(name) == [op |-> name, args |-> <<>>]

\* thread t uses the client and is between two calls
Idle(t) == t \in threads /\ pc[t] = "idle"

NoKwargs == [k \in {} |-> None]

list_files(t) ==
    /\ Idle(t)
    /\ Send(t, Op("list_files"), "GET", <<"/v1/files/">>, TRUE, NoKwargs)
    /\ UNCHANGED opens

get_file(t) ==
    /\ Idle(t)
    /\ Send(t, Op("get_file"), "GET", <<"/v1/files/", "{file_uuid}">>, TRUE, NoKwargs)
    /\ UNCHANGED opens

delete_file(t) ==
    /\ Idle(t)
    /\ Send(t, Op("delete_file"), "DELETE", <<"/v1/files/", "{file_uuid}">>, FALSE, NoKwargs)
    /\ UNCHANGED opens

list_workflows(t) ==
    /\ Idle(t)
    /\ Send(t, Op("list_workflows"), "GET", <<"/v1/workflows/">>, TRUE, NoKwargs)
    /\ UNCHANGED opens

create_workflow(t) ==
    /\ Idle(t)
    /\ Send(t, Op("create_workflow"), "POST", <<"/v1/workflows/">>, TRUE,
            [json |-> "workflow_data"])
    /\ UNCHANGED opens

get_workflow(t) ==
    /\ Idle(t)
    /\ Send(t, Op("get_workflow"), "GET", <<"/v1/workflows/", "{workflow_uuid}">>, TRUE,
            NoKwargs)
    /\ UNCHANGED opens

override_workflow(t) ==
    /\ Idle(t)
    /\ Send(t, Op("override_workflow"), "PUT", <<"/v1/workflows/", "{workflow_uuid}">>,
            TRUE, [json |-> "workflow_data"])
    /\ UNCHANGED opens

update_workflow(t) ==
    /\ Idle(t)
    /\ Send(t, Op("update_workflow"), "PATCH", <<"/v1/workflows/", "{workflow_uuid}">>,
            TRUE, [json |-> "workflow_data"])
    /\ UNCHANGED opens

delete_workflow(t) ==
    /\ Idle(t)
    /\ Send(t, Op("delete_workflow"), "DELETE", <<"/v1/workflows/", "{workflow_uuid}">>,
            FALSE, NoKwargs)
    /\ UNCHANGED opens

list_workflow_runs(t) ==
    /\ Idle(t)
    /\ Send(t, Op("list_workflow_runs"), "GET",
            <<"/v1/workflows/", "{workflow_uuid}", "/runs/">>, TRUE, NoKwargs)
    /\ UNCHANGED opens

create_workflow_run(t) ==
    /\ Idle(t)
    /\ Send(t, Op("create_workflow_run"), "POST",
            <<"/v1/workflows/", "{workflow_uuid}", "/runs/">>, TRUE, [json |-> "run_data"])
    /\ UNCHANGED opens

get_workflow_run_details(t) ==
    /\ Idle(t)
    /\ Send(t, Op("get_workflow_run_details"), "GET",
            <<"/v1/workflows/", "{workflow_uuid}", "/runs/", "{run_num}">>, TRUE, NoKwargs)
    /\ UNCHANGED opens

(***************************************************************************)
(* upload_file                                                             *)
(***************************************************************************)
\* file paths, as their segments between '/'
FilePaths    == {<<"dir", "a.txt">>, <<"blob">>}
FileContents == {None, PyBytes(Chars(1))}
FileNames    == {None, PyStr(<<>>), PyStr(<<"b.csv">>)}

\* mimetypes.guess_type(name)[0], name given by its segments
guess_type(name) ==
    CASE name[Len(name)] = "a.txt" -> PyStr(<<"text/plain">>)
      [] name[Len(name)] = "b.csv" -> PyStr(<<"text/csv">>)
      [] OTHER -> None

\* MissingFilename written as: if file_content is None and filename is None
MissingFilename_WrongTest(file_content, filename) ==
    file_content.t = "None" /\ filename.t = "None"

\* if file_content is not None and filename is None
MissingFilename(file_content, filename) ==
    file_content.t # "None" /\ filename.t = "None"

upload_file(t) ==
    /\ Idle(t)
    /\ \E file_path \in FilePaths, file_content \in FileContents,
          filename \in FileNames, readable \in BOOLEAN :
          LET c == [op |-> "upload_file",
                    args |-> [file_path |-> file_path, file_content |-> file_content,
                              filename |-> filename]]
              _filename == IF Truthy(filename) THEN filename.v
                           ELSE <<file_path[Len(file_path)]>>
              guessed == guess_type(IF file_content.t = "None" THEN file_path
                                    ELSE _filename)
              mime_type == IF guessed.t = "None"
                           THEN PyStr(<<"application/octet-stream">>) ELSE guessed
              files == [file |-> [filename |-> _filename, mime_type |-> mime_type,
                                  content |-> IF file_content.t = "None"
                                              THEN PyStr(<<"open file">>)
                                              ELSE file_content]]
          IN  IF MissingFilename(file_content, filename)
              THEN /\ Fail(t, c, Raise("ValueError",
                            PyStr(<<"filename must be provided if file_content is specified.">>),
                            NotPassed, NotPassed))
                   /\ UNCHANGED opens
              ELSE IF file_content.t # "None"
              THEN /\ Send(t, c, "POST", <<"/v1/files/">>, TRUE, [files |-> files])
                   /\ UNCHANGED opens
              ELSE /\ opens' = [opens EXCEPT ![t] = @ + 1]
                   /\ IF readable
                      THEN Send(t, c, "POST", <<"/v1/files/">>, TRUE, [files |-> files])
                      ELSE Fail(t, c, Raise("OSError", PyStr(<<"No such file">>),
                                            NotPassed, NotPassed))

(***************************************************************************)
(* get_workflow_run_results                                                *)
(***************************************************************************)
FormatOptions == {None, PyStr(<<"opt">>)}

get_workflow_run_results(t) ==
    /\ Idle(t)
    /\ \E accept_format \in Formats, format_option \in FormatOptions :
          LET c == [op |-> "get_workflow_run_results",
                    args |-> [accept_format |-> accept_format,
                              format_option |-> format_option]]
              params == IF Truthy(format_option)
                        THEN [format_option |-> format_option] ELSE NoKwargs
              custom_headers ==
                  Update(headers, [Accept |-> <<FormatValue(accept_format)>>])
          IN  Send(t, c, "GET",
                   <<"/v1/workflows/", "{workflow_uuid}", "/runs/", "{run_num}", "/results">>,
                   FALSE, [params |-> params, headers |-> custom_headers])
    /\ UNCHANGED opens

(***************************************************************************)
(* Second step: the response (or the transport failure) arrives.           *)
(***************************************************************************)
\* thread t's request is answered with one of the given responses
Receive(t, answers) ==
    /\ t \in threads
    /\ pc[t] = "inflight"
    /\ \E r \in answers, ok \in BOOLEAN :
          LET d == _request(request[t].url, request[t].parse_json, r)
          IN  /\ resp' = [resp EXCEPT ![t] = r]
              /\ accepted' = [accepted EXCEPT ![t] = ok]
              /\ dispatch' = [dispatch EXCEPT ![t] = d]
              /\ outcome' = [outcome EXCEPT ![t] = Finish(call[t], d, ok)]
    /\ pc' = [pc EXCEPT ![t] = "done"]
    /\ UNCHANGED <<client, threads, call, request, netCalls, opens>>

Respond(t) == Receive(t, Responses)

\* the caller has the result; the thread is free for its next call
Done(t) ==
    /\ t \in threads
    /\ pc[t] = "done"
    /\ pc' = [pc EXCEPT ![t] = "idle"]
    /\ call' = [call EXCEPT ![t] = NoCall]
    /\ request' = [request EXCEPT ![t] = NoRequest]
    /\ netCalls' = [netCalls EXCEPT ![t] = 0]
    /\ opens' = [opens EXCEPT ![t] = 0]
    /\ resp' = [resp EXCEPT ![t] = NoResponse]
    /\ accepted' = [accepted EXCEPT ![t] = TRUE]
    /\ dispatch' = [dispatch EXCEPT ![t] = Pending]
    /\ outcome' = [outcome EXCEPT ![t] = Pending]
    /\ UNCHANGED <<client, threads>>

Next ==
    \E t \in Threads :
        \/ list_files(t)
        \/ upload_file(t)
        \/ get_file(t)
        \/ delete_file(t)
        \/ list_workflows(t)
        \/ create_workflow(t)
        \/ get_workflow(t)
        \/ override_workflow(t)
        \/ update_workflow(t)
        \/ delete_workflow(t)
        \/ list_workflow_runs(t)
        \/ create_workflow_run(t)
        \/ get_workflow_run_details(t)
        \/ get_workflow_run_results(t)
        \/ Respond(t)
        \/ Done(t)

Spec == Init /\ [][Next]_vars

(***************************************************************************)
(* Two threads sharing one client.  Their steps interleave at the points   *)
(* where a call blocks on the network; the service answers with one of a   *)
(* few responses of each kind.                                             *)
(***************************************************************************)
SampleResponses ==
    {HTTPResponse(s, b) : s \in {200, 404, 500}, b \in {EmptyBody, JsonObj("id", PyStr(Chars(1)))}}
    \cup {HTTPResponse(204, EmptyBody), TransportFailure}

RespondSample(t) == Receive(t, SampleResponses)

InitConcurrent == \E url \in RootUrls, key \in ApiKeys : __init__(url, key, Threads)

NextConcurrent ==
    \E t \in Threads :
        \/ list_files(t)
        \/ upload_file(t)
        \/ get_file(t)
        \/ delete_file(t)
        \/ list_workflows(t)
        \/ create_workflow(t)
        \/ get_workflow(t)
        \/ override_workflow(t)
        \/ update_workflow(t)
        \/ delete_workflow(t)
        \/ list_workflow_runs(t)
        \/ create_workflow_run(t)
        \/ get_workflow_run_details(t)
        \/ get_workflow_run_results(t)
        \/ RespondSample(t)
        \/ Done(t)

SpecConcurrent == InitConcurrent /\ [][NextConcurrent]_vars

(***************************************************************************)
(* Properties                                                              *)
(***************************************************************************)
\* thread t's call has ended and a response with an HTTP status came back
Answered(t) == pc[t] = "done" /\ resp[t].kind = "http"

Is2xx(status) == 200 <= status /\ status <= 299
Is4xx(status) == 400 <= status /\ status <= 499
Is5xx(status) == 500 <= status /\ status <= 599

\* x occurs in msg as a run of consecutive characters
Contains(msg, x) ==
    \E i \in 0..(Len(msg) - Len(x)) :
        \A j \in 1..Len(x) : msg[i + j] = x[j]

\* thread t's call raised before it reached _request (a check of its arguments, open())
RaisedLocally(t) == pc[t] = "done" /\ dispatch[t].kind = "pending"

(* C1: an HTTP error response is classified by its status alone: 401 raises
   AuthenticationError, 403 ForbiddenError, any other 4xx ClientRequestError
   carrying that status, any 5xx APIServerError carrying that status,
   whatever the body and whether or not JSON parsing was asked for. *)
C1_Classification ==
    \A t \in Threads :
        (Answered(t) /\ (Is4xx(resp[t].status_code) \/ Is5xx(resp[t].status_code))) =>
            LET s == resp[t].status_code
                d == dispatch[t]
            IN  /\ d.kind = "raise"
                /\ d.exc = (IF s = 401 THEN "AuthenticationError"
                            ELSE IF s = 403 THEN "ForbiddenError"
                            ELSE IF Is4xx(s) THEN "ClientRequestError"
                            ELSE "APIServerError")
                /\ (d.exc \in {"ClientRequestError", "APIServerError"}
                        => d.status_code = PyInt(s))
                /\ outcome[t] = d

\* a 403 with a JSON body on a call that suppresses JSON parsing, raised as ForbiddenError
C1_Witness ==
    \E t \in Threads :
        /\ Answered(t) /\ resp[t].status_code = 403
        /\ json(resp[t]).t = "dict"
        /\ ~request[t].parse_json
        /\ dispatch[t].exc = "ForbiddenError"

(* C2: the dispatcher returns a value only for a status in [200,299]; for every
   other status, and for a transport failure, it raises DocumentExtractorAPIError
   or a subtype. *)
C2_ValueOnlyFor2xx ==
    \A t \in Threads :
        (pc[t] = "done" /\ netCalls[t] = 1) =>
            IF resp[t].kind = "http" /\ Is2xx(resp[t].status_code)
            THEN TRUE
            ELSE dispatch[t].kind = "raise" /\ IsAPIError(dispatch[t].exc)

(* C3: get_workflow_run_results with a format that is none of JSON, CSV, EXCEL
   raises a ValueError and sends no request at any point of the call. *)
C3_UnsupportedFormatNoRequest ==
    \A t \in Threads :
        (call[t].op = "get_workflow_run_results"
         /\ call[t].args.accept_format \notin {"JSON", "CSV", "EXCEL"}) =>
            /\ netCalls[t] = 0
            /\ pc[t] = "done" => (outcome[t].kind = "raise" /\ outcome[t].exc = "ValueError")

(* C4: upload_file with file_content given and filename None raises a ValueError
   with no request sent and no file opened. *)
C4_UploadPrecondition ==
    \A t \in Threads :
        (call[t].op = "upload_file"
         /\ call[t].args.file_content.t # "None"
         /\ call[t].args.filename.t = "None") =>
            /\ pc[t] = "done"
            /\ outcome[t].kind = "raise" /\ outcome[t].exc = "ValueError"
            /\ netCalls[t] = 0
            /\ opens[t] = 0
            /\ request[t].method = "none"
            /\ resp[t].kind = "none"

C4_Witness ==
    \E t \in Threads :
        /\ call[t].op = "upload_file"
        /\ call[t].args.file_content.t = "bytes"
        /\ call[t].args.filename.t = "None"
        /\ outcome[t].exc = "ValueError"

\* "Client error {status}"
GenericClientMessage(status) == <<"Client error ", ToString(status)>>

\* thread t's call ended in a ClientRequestError of the dispatcher
ClientError(t) == Answered(t) /\ dispatch[t].exc = "ClientRequestError"

(* C5 as stated: the message of a ClientRequestError contains X and the status
   when the body is a JSON object with a detail field of value X, contains the
   body when that is a non-JSON string of fewer than 100 characters, and is
   exactly "Client error {status}" in every other case; the body is the details. *)
C5_MessageAsStated ==
    \A t \in Threads :
        ClientError(t) =>
            LET s == resp[t].status_code
                doc == json(resp[t])
                msg == dispatch[t].message.v
            IN  /\ IF doc.t = "dict" /\ "detail" \in DOMAIN doc.v
                   THEN /\ Contains(msg, Format(doc.v["detail"]))
                        /\ Contains(msg, <<ToString(s)>>)
                   ELSE IF doc.t = "invalid" /\ Len(text(resp[t])) < ShortTextLimit
                   THEN Contains(msg, text(resp[t]))
                   ELSE msg = GenericClientMessage(s)
                /\ dispatch[t].details = (IF doc.t = "invalid" THEN PyStr(text(resp[t])) ELSE doc)

(* C5 amended: the message is "Client error {status}: {detail}" when the body is
   a JSON object whose detail value is truthy; else "Client error {status}: {s}"
   when the error details are a string s of fewer than 100 characters, be it the
   text of a non-JSON body or a JSON body that is a string; else exactly
   "Client error {status}".  The details are the decoded body, or its text when
   it is not JSON. *)
C5_Message ==
    \A t \in Threads :
        ClientError(t) =>
            LET s == resp[t].status_code
                doc == json(resp[t])
                msg == dispatch[t].message.v
                str == IF doc.t = "invalid" THEN text(resp[t])
                       ELSE IF doc.t = "str" THEN doc.v ELSE <<>>
                isStr == doc.t \in {"invalid", "str"}
            IN  /\ IF doc.t = "dict" /\ "detail" \in DOMAIN doc.v /\ Truthy(doc.v["detail"])
                   THEN msg = GenericClientMessage(s) \o <<": ">> \o Format(doc.v["detail"])
                   ELSE IF isStr /\ Len(str) < ShortTextLimit
                   THEN msg = GenericClientMessage(s) \o <<": ">> \o str
                   ELSE msg = GenericClientMessage(s)
                /\ dispatch[t].details = (IF doc.t = "invalid" THEN PyStr(text(resp[t])) ELSE doc)

\* a 4xx whose non-JSON body is exactly 100 characters long gets the generic message
C5_Witness ==
    \E t \in Threads :
        /\ ClientError(t)
        /\ json(resp[t]).t = "invalid"
        /\ Len(text(resp[t])) = ShortTextLimit
        /\ dispatch[t].message.v = GenericClientMessage(resp[t].status_code)

(* C6: every public operation whose request is answered with status 204
   returns None, as the dispatcher does when JSON parsing is enabled. *)
C6_NoneOn204 ==
    \A t \in Threads :
        (Answered(t) /\ resp[t].status_code = 204) =>
            /\ request[t].parse_json => dispatch[t] = Return(None)
            /\ outcome[t] = Return(None)

\* thread t's structured result retrieval was answered with a 2xx status
StructuredResult(t) ==
    /\ Answered(t) /\ Is2xx(resp[t].status_code)
    /\ call[t].op = "get_workflow_run_results"
    /\ call[t].args.accept_format = "JSON"

(* C7 as stated: structured result retrieval answered 2xx yields a RunResult
   built from the body's fields for a well-formed JSON body and a ValueError,
   never a DocumentExtractorAPIError, for a malformed one. *)
C7_StructuredAsStated ==
    \A t \in Threads :
        StructuredResult(t) =>
            IF json(resp[t]).t # "invalid"
            THEN /\ outcome[t].kind = "return"
                 /\ outcome[t].value.t = "model"
                 /\ outcome[t].value.v.cls = "RunResult"
            ELSE /\ outcome[t].kind = "raise"
                 /\ IsValueError(outcome[t].exc) /\ ~IsAPIError(outcome[t].exc)

(* C7 amended: structured result retrieval answered 2xx yields a RunResult built
   from the body's fields when the body is a JSON object the RunResult model
   accepts; a malformed body, and a well-formed body of any other shape, yield a
   ValueError and never a DocumentExtractorAPIError. *)
C7_Structured ==
    \A t \in Threads :
        StructuredResult(t) =>
            IF json(resp[t]).t = "dict" /\ accepted[t]
            THEN outcome[t] = Return(Model("RunResult", json(resp[t]).v))
            ELSE /\ outcome[t].kind = "raise"
                 /\ IsValueError(outcome[t].exc) /\ ~IsAPIError(outcome[t].exc)

\* a 200 with a body that is not JSON, reported as a ValueError
C7_Witness ==
    \E t \in Threads :
        /\ StructuredResult(t) /\ resp[t].status_code = 200
        /\ json(resp[t]).t = "invalid" /\ Len(text(resp[t])) > 0
        /\ outcome[t].exc = "ValueError"

(* C8: for an operation that decodes the response as JSON, a 2xx response other
   than 204 whose body cannot be parsed is reported as a value error, never as a
   DocumentExtractorAPIError. *)
C8_UnparseableIsValueError ==
    \A t \in Threads :
        (Answered(t) /\ request[t].parse_json
         /\ Is2xx(resp[t].status_code) /\ resp[t].status_code # 204
         /\ json(resp[t]).t = "invalid") =>
            /\ dispatch[t].kind = "raise"
            /\ IsValueError(dispatch[t].exc) /\ ~IsAPIError(dispatch[t].exc)
            /\ outcome[t].kind = "raise"
            /\ IsValueError(outcome[t].exc) /\ ~IsAPIError(outcome[t].exc)

(* C9: every request sent carries Authorization: Bearer <api key given at
   construction>; overrides replace base headers per key, and the only header
   that ever differs from the base set is Accept. *)
C9_Authorization ==
    \A t \in Threads :
        netCalls[t] > 0 =>
            LET h == request[t].headers
            IN  /\ "Authorization" \in DOMAIN h
                /\ h["Authorization"] = <<"Bearer ", api_key>>
                /\ DOMAIN h = DOMAIN headers
                /\ \A k \in (DOMAIN h) \ {"Accept"} : h[k] = headers[k]
                /\ h["Accept"] = (IF call[t].op = "get_workflow_run_results"
                                  THEN <<FormatValue(call[t].args.accept_format)>>
                                  ELSE headers["Accept"])

\* a CSV result retrieval on the wire: Accept overridden, Authorization kept
C9_Witness ==
    \E t \in Threads :
        /\ pc[t] = "inflight"
        /\ call[t].op = "get_workflow_run_results"
        /\ request[t].headers["Accept"] = <<"text/csv">>
        /\ request[t].headers["Authorization"] = <<"Bearer ", api_key>>

(* C10: a call of a public operation sends at most one request, exactly one
   unless it raised before reaching the dispatcher; the request is never sent
   again, and a 4xx, a 5xx or a transport failure always ends the call with a
   DocumentExtractorAPIError raised to the caller. *)
C10_SingleAttempt ==
    \A t \in Threads :
        /\ netCalls[t] <= 1
        /\ pc[t] = "inflight" => netCalls[t] = 1
        /\ pc[t] = "done" => (netCalls[t] = 1 <=> ~RaisedLocally(t))
        /\ (pc[t] = "done" /\ netCalls[t] = 1
            /\ (resp[t].kind = "transport"
                \/ Is4xx(resp[t].status_code) \/ Is5xx(resp[t].status_code))) =>
                /\ outcome[t].kind = "raise"
                /\ IsAPIError(outcome[t].exc)

\* a call that met a transport failure: one request sent, the error raised
C10_Witness ==
    \E t \in Threads :
        /\ pc[t] = "done" /\ resp[t].kind = "transport"
        /\ netCalls[t] = 1
        /\ outcome[t].exc = "DocumentExtractorAPIError"

\* the headers thread t's call sends, from its own arguments and the configuration alone
OwnHeaders(t) ==
    IF call[t].op = "get_workflow_run_results"
    THEN [Authorization |-> <<"Bearer ", api_key>>,
          Accept |-> <<FormatValue(call[t].args.accept_format)>>]
    ELSE [Authorization |-> <<"Bearer ", api_key>>, Accept |-> <<"application/json">>]

(* C11: no operation changes the client's configuration: under every
   interleaving of the calls of two threads on one client, root_url, api_key
   and the base headers (Accept: application/json included) stay as
   constructed, every request carries the headers of its own call only, and
   a step of one call never changes the request of another. *)
C11_NoSharedMutation ==
    /\ [](/\ headers = [Authorization |-> <<"Bearer ", api_key>>,
                        Accept |-> <<"application/json">>]
          /\ \A t \in Threads : netCalls[t] > 0 => request[t].headers = OwnHeaders(t))
    /\ [][/\ client' = client
          /\ \A t \in Threads :
                (call'[t] = call[t] /\ pc[t] # "idle") => request'[t] = request[t]]_vars

\* a CSV result retrieval and a get_file on the wire together, each with its own Accept
C11_Witness ==
    \E t, u \in Threads :
        /\ t # u
        /\ pc[t] = "inflight" /\ call[t].op = "get_workflow_run_results"
        /\ request[t].headers["Accept"] = <<"text/csv">>
        /\ pc[u] = "inflight" /\ call[u].op = "get_file"
        /\ request[u].headers["Accept"] = <<"application/json">>
        /\ headers["Accept"] = <<"application/json">>

\* thread t's delete_file or delete_workflow was answered with an HTTP status
DeleteAnswered(t) == Answered(t) /\ call[t].op \in DeleteOps

(* C12: delete_file and delete_workflow dispatch with JSON parsing suppressed;
   they return None for every 2xx response, 204 included, whatever the body,
   and for every 4xx and 5xx response they raise the error of the
   classification table: the dispatcher raises before it looks at the
   parse_json flag, so no response handle of an error status is returned. *)
C12_Delete ==
    \A t \in Threads :
        DeleteAnswered(t) =>
            LET s == resp[t].status_code
            IN  /\ ~request[t].parse_json
                /\ request[t].method = "DELETE"
                /\ Is2xx(s) => (outcome[t] = Return(None) /\ dispatch[t] = Return(Handle(resp[t])))
                /\ (Is4xx(s) \/ Is5xx(s)) =>
                      /\ dispatch[t].kind = "raise"
                      /\ outcome[t] = dispatch[t]
                      /\ outcome[t].exc = (IF s = 401 THEN "AuthenticationError"
                                           ELSE IF s = 403 THEN "ForbiddenError"
                                           ELSE IF Is4xx(s) THEN "ClientRequestError"
                                           ELSE "APIServerError")
                      /\ outcome[t].details = (IF json(resp[t]).t = "invalid"
                                               THEN PyStr(text(resp[t])) ELSE json(resp[t]))

\* a delete_workflow answered 200 with a JSON body returns None
C12_Witness ==
    \E t \in Threads :
        /\ DeleteAnswered(t) /\ call[t].op = "delete_workflow"
        /\ resp[t].status_code = 200 /\ json(resp[t]).t = "dict"
        /\ outcome[t] = Return(None)

====
